---- MODULE Spec2Model ----
(***************************************************************************)
(* Console Tic Tac Toe, in its three variants:                             *)
(*   functional.py  module-level board and turn, bool players              *)
(*   oop.py         Board / Players classes, two human players             *)
(*   oop_npc.py     as oop.py, with a random computer opponent playing O   *)
(*                                                                         *)
(* A cell holds the glyph the program prints for it: "-" (None /           *)
(* Player.EMPTY), "X" (True / Player.PRIMARY / Player.PLAYER) or "O"        *)
(* (False / Player.SECONDARY / Player.COMPUTER).                           *)
(* An input line is a sequence of one-character tokens; the token "sup2"   *)
(* stands for the single character U+00B2 (superscript two).               *)
(***************************************************************************)
EXTENDS Integers, Sequences, FiniteSets, TLC

VARIABLES
    variant,         \* which of the three programs runs
    grid,            \* board / Board.grid : row -> col -> glyph
    turn,            \* turn / Board.turn
    cls_current,     \* Players._current (class attribute; unused by functional.py)
    current_player,  \* main's local player / current_player
    pc,              \* where the program is
    event,           \* what the last step of the program did
    location,        \* the position the last step drew or read (0: none)
    placed,          \* history: the glyphs given to add, in order
    line,            \* the input line under test (input harness only)
    games            \* how many times main has been called in this process

vars ==
    <<variant, grid, turn, cls_current, current_player, pc, event, location, placed,
      line, games>>

----------------------------------------------------------------------------
(* Bounds *)

\* longest input line typed at a prompt
MaxLineLen == 3

\* how many games are played in one process when main is called again
MaxGames == 2

----------------------------------------------------------------------------
(* Program constants *)

BOARD_ROWS == 3

BOARD_COLS == 3

SIZE == 3

EMPTY == "-"

PLAYER_X == "X"

PLAYER_O == "O"

Variants == {"functional", "oop", "oop_npc"}

Marks == {PLAYER_X, PLAYER_O}

Cells == {EMPTY, PLAYER_X, PLAYER_O}

Positions == 1..9

\* board = [[None ...] ...] / Board.__init__'s grid
EmptyGrid == [r \in 0..(BOARD_ROWS - 1) |-> [c \in 0..(BOARD_COLS - 1) |-> EMPTY]]

AllGrids == [0..(BOARD_ROWS - 1) -> [0..(BOARD_COLS - 1) -> Cells]]

----------------------------------------------------------------------------
(* Coordinates, placement, occupancy *)

\* a conversion that hands out (col, row)
get_coords_transposed(position) ==
    LET p == position - 1
    IN  <<p % SIZE, p \div SIZE>>

\* linear_position_to_coords / Board.get_coords
get_coords(position) ==
    LET p == position - 1
        row == p \div SIZE
        col == IF p > 2 THEN p % SIZE ELSE p
    IN  <<row, col>>

\* is_taken / Board.is_taken
is_taken(b, position) ==
    LET rc == get_coords(position)
    IN  b[rc[1]][rc[2]] # EMPTY

\* an add that fills the whole row of the position
add_row(b, position, player) ==
    LET rc == get_coords(position)
    IN  [b EXCEPT ![rc[1]] = [c \in 0..(BOARD_COLS - 1) |-> player]]

\* add_to_board / Board.add
add(b, position, player) ==
    LET rc == get_coords(position)
    IN  [b EXCEPT ![rc[1]][rc[2]] = player]

----------------------------------------------------------------------------
(* Win detection, one definition per variant where the code differs *)

RECURSIVE row_scan(_, _, _, _)
\* the inner loop over the cells of row r, with its break
row_scan(b, player, r, c) ==
    IF c >= BOARD_COLS THEN TRUE
    ELSE IF b[r][c] # player THEN FALSE
    ELSE row_scan(b, player, r, c + 1)

RECURSIVE col_scan(_, _, _, _)
\* the inner loop over the rows of column c, with its break
col_scan(b, player, c, r) ==
    IF r >= BOARD_ROWS THEN TRUE
    ELSE IF b[r][c] # player THEN FALSE
    ELSE col_scan(b, player, c, r + 1)

RECURSIVE functional_rows_from(_, _, _, _)
\* functional.py check_rows: the outer loop; falls out with the last retval
functional_rows_from(b, player, r, retval) ==
    IF r >= BOARD_ROWS THEN retval
    ELSE LET rv == row_scan(b, player, r, 0)
         IN  IF rv THEN TRUE ELSE functional_rows_from(b, player, r + 1, rv)

functional_check_rows(b, player) == functional_rows_from(b, player, 0, FALSE)

RECURSIVE functional_cols_from(_, _, _, _)
\* functional.py check_cols: the outer loop; falls out with the last retval
functional_cols_from(b, player, c, retval) ==
    IF c >= BOARD_COLS THEN retval
    ELSE LET rv == col_scan(b, player, c, 0)
         IN  IF rv THEN rv ELSE functional_cols_from(b, player, c + 1, rv)

functional_check_cols(b, player) == functional_cols_from(b, player, 0, FALSE)

RECURSIVE oop_rows_from(_, _, _)
\* oop.py Board._check_rows: the outer loop; falls out with False
oop_rows_from(b, player, r) ==
    IF r >= BOARD_ROWS THEN FALSE
    ELSE IF row_scan(b, player, r, 0) THEN TRUE
    ELSE oop_rows_from(b, player, r + 1)

oop_check_rows(b, player) == oop_rows_from(b, player, 0)

\* oop_npc.py Board._check_rows: [player] * _SIZE in self.grid
npc_check_rows(b, player) ==
    \E r \in 0..(SIZE - 1) : b[r] = [c \in 0..(SIZE - 1) |-> player]

RECURSIVE oop_cols_from(_, _, _)
\* oop.py / oop_npc.py Board._check_cols: the outer loop; falls out with False
oop_cols_from(b, player, c) ==
    IF c >= BOARD_COLS THEN FALSE
    ELSE IF col_scan(b, player, c, 0) THEN TRUE
    ELSE oop_cols_from(b, player, c + 1)

oop_check_cols(b, player) == oop_cols_from(b, player, 0)

\* a diagonal check that forgets the centre cell
check_diags_no_centre(b, player) ==
    (b[0][0] = b[2][2] /\ b[2][2] = player) \/ (b[0][2] = b[2][0] /\ b[2][0] = player)

\* check_diags / Board._check_diags of functional.py and oop.py
check_diags(b, player) ==
    IF ~(b[1][1] = player) THEN FALSE
    ELSE IF (b[0][0] = b[2][2] /\ b[2][2] = player)
            \/ (b[0][2] = b[2][0] /\ b[2][0] = player) THEN TRUE
    ELSE FALSE

\* oop_npc.py Board._check_diags, with center_point and corner
npc_check_diags(b, player) ==
    LET center_point == SIZE \div 2
        corner == SIZE - 1
    IN  IF ~(b[center_point][center_point] = player) THEN FALSE
        ELSE IF (b[0][0] = b[corner][corner] /\ b[corner][corner] = player)
                \/ (b[0][corner] = b[corner][0] /\ b[corner][0] = player) THEN TRUE
        ELSE FALSE

\* functional.py chicken_dinner
chicken_dinner(b, player) ==
    functional_check_rows(b, player) \/ functional_check_cols(b, player)
        \/ check_diags(b, player)

\* oop.py Board.is_winner: TRUE when it raises WinnerWinnerChickenDinner
oop_is_winner(b, player) ==
    oop_check_rows(b, player) \/ oop_check_cols(b, player) \/ check_diags(b, player)

\* oop_npc.py Board.is_winner: TRUE when it raises WinnerWinnerChickenDinner
npc_is_winner(b, player) ==
    npc_check_rows(b, player) \/ oop_check_cols(b, player) \/ npc_check_diags(b, player)

\* a win check that looks at the rows only
is_winner_rows_only(v, b, player) == oop_check_rows(b, player)

\* the win check the running variant uses
is_winner(v, b, player) ==
    CASE v = "functional" -> chicken_dinner(b, player)
      [] v = "oop" -> oop_is_winner(b, player)
      [] v = "oop_npc" -> npc_is_winner(b, player)

----------------------------------------------------------------------------
(* Input lines and the human move source *)

Digits == {"0", "1", "2", "3", "4", "5", "6", "7", "8", "9"}

\* characters for which str.isnumeric() is true: the decimal digits and U+00B2
NumericChars == Digits \cup {"sup2"}

Chars == {"q", "Q", "a", "b", "c", "-"} \cup NumericChars

LinesUpTo(n) == UNION {[1..k -> Chars] : k \in 0..n}

Lines == LinesUpTo(MaxLineLen)

\* str.casefold(), character by character
casefold(s) == [i \in 1..Len(s) |-> IF s[i] = "Q" THEN "q" ELSE s[i]]

\* str.isnumeric(): at least one character, all of them numeric
isnumeric(s) == Len(s) > 0 /\ \A i \in 1..Len(s) : s[i] \in NumericChars

DigitValue(ch) ==
    CASE ch = "0" -> 0 [] ch = "1" -> 1 [] ch = "2" -> 2 [] ch = "3" -> 3
      [] ch = "4" -> 4 [] ch = "5" -> 5 [] ch = "6" -> 6 [] ch = "7" -> 7
      [] ch = "8" -> 8 [] ch = "9" -> 9

RECURSIVE decimal_value(_, _)
\* the value of the first n characters of a string of decimal digits
decimal_value(s, n) ==
    IF n = 0 THEN 0 ELSE 10 * decimal_value(s, n - 1) + DigitValue(s[n])

\* int(input_string) on a string that passed isnumeric(): the value of a string
\* of decimal digits; ValueError when a character is numeric but no decimal digit
int(s) ==
    IF \A i \in 1..Len(s) : s[i] \in Digits
    THEN [kind |-> "int", num |-> decimal_value(s, Len(s))]
    ELSE [kind |-> "ValueError", num |-> 0]

\* the bounds test: input_num < 1 or input_num > 9 / not 1 <= input_num <= 9
out_of_bounds(input_num) == input_num < 1 \/ input_num > 9

\* get_user_input_as_int / get_user_input: the value returned, or the exception raised
get_user_input(input_string) ==
    IF casefold(input_string) = <<"q">> THEN [kind |-> "UserExit", num |-> 0]
    ELSE IF ~isnumeric(input_string) THEN [kind |-> "InvalidInput", num |-> 0]
    ELSE LET input_num == int(input_string)
         IN  IF input_num.kind = "ValueError" THEN input_num
             ELSE IF out_of_bounds(input_num.num)
                  THEN [kind |-> "InputOutOfBounds", num |-> 0]
             ELSE input_num

----------------------------------------------------------------------------
(* Player rotation *)

\* Players._players[cls._current]: (SECONDARY, PRIMARY) indexed by a bool
Players_current(cur) == IF cur THEN PLAYER_X ELSE PLAYER_O

\* a switch that leaves Players._current as it is
Players_switch_stuck(cur) == cur

\* a switch that always makes the primary player current
Players_switch_reset(cur) == TRUE

\* Players.switch: the new value of Players._current
Players_switch(cur) == ~cur

\* functional.py: not player
not_player(player) == IF player = PLAYER_X THEN PLAYER_O ELSE PLAYER_X

\* a rotation that flips main's local player and leaves Players._current alone
rotate_local_only(v, st) == [st EXCEPT !.current_player = not_player(st.current_player)]

\* player = not player / current_player = Players.switch()
rotate(v, st) ==
    IF v = "functional"
    THEN [st EXCEPT !.current_player = not_player(st.current_player)]
    ELSE LET cur == Players_switch(st.cls_current)
         IN  [st EXCEPT !.cls_current = cur, !.current_player = Players_current(cur)]

----------------------------------------------------------------------------
(* One iteration of main's loop, as a function of the program state *)

\* the program state as a record
State ==
    [grid |-> grid, turn |-> turn, cls_current |-> cls_current,
     current_player |-> current_player, pc |-> pc, event |-> event,
     location |-> location, placed |-> placed]

\* a tie check that forgets to count the turn
tie_turn_skipped(t) == t

\* check_tie / Board.is_tie: the incremented counter
tie_turn(t) == t + 1

\* a tie test that is off by one the other way
tie_reached_late(t) == t = BOARD_ROWS * BOARD_COLS + 1

\* a tie test that is off by one
tie_reached_early(t) == t = BOARD_ROWS * BOARD_COLS - 1

\* check_tie / Board.is_tie: the test on the incremented counter
tie_reached(t) == t = BOARD_ROWS * BOARD_COLS

\* a rejection that still counts the turn
reject_taken_consuming(st, loc) ==
    [st EXCEPT !.event = "taken", !.location = loc, !.turn = st.turn + 1]

\* "Please try again." and continue
reject_taken(st, loc) == [st EXCEPT !.event = "taken", !.location = loc]

\* an input error that is left uncaught
input_error_fatal(st, kind) ==
    [st EXCEPT !.pc = "crashed", !.event = kind, !.location = 0]

\* except (InvalidInput, InputOutOfBounds): print(e), loop again
input_error(st, kind) == [st EXCEPT !.event = kind, !.location = 0]

\* a user exit that still counts a turn
user_exit_counting(st) ==
    [st EXCEPT !.pc = "quit", !.event = "quit", !.location = 0, !.turn = st.turn + 1]

\* except UserExit: farewell and break
user_exit(st) == [st EXCEPT !.pc = "quit", !.event = "quit", !.location = 0]

\* an exception main does not catch (nor the __main__ guard): traceback
uncaught(st, kind) == [st EXCEPT !.pc = "crashed", !.event = kind, !.location = 0]

\* the tie check made before the win check
after_add_tie_first(v, st) ==
    LET s2 == [st EXCEPT !.turn = st.turn + 1]
    IN  IF s2.turn = BOARD_ROWS * BOARD_COLS
        THEN [s2 EXCEPT !.pc = "tie", !.event = "tie"]
        ELSE IF is_winner(v, s2.grid, s2.current_player)
             THEN [s2 EXCEPT !.pc = "won", !.event = "win"]
             ELSE [rotate(v, s2) EXCEPT !.event = "placed"]

\* after add: win check, then tie check, then rotation
after_add(v, st) ==
    IF is_winner(v, st.grid, st.current_player)
    THEN [st EXCEPT !.pc = "won", !.event = "win"]
    ELSE LET s2 == [st EXCEPT !.turn = tie_turn(st.turn)]
         IN  IF tie_reached(s2.turn)
             THEN [s2 EXCEPT !.pc = "tie", !.event = "tie"]
             ELSE [rotate(v, s2) EXCEPT !.event = "placed"]

\* add_to_board(coords, player) / board.add(location, current_player), and what follows
place(v, st, loc) ==
    after_add(v, [st EXCEPT !.grid = add(st.grid, loc, st.current_player),
                            !.location = loc,
                            !.placed = Append(st.placed, st.current_player)])

\* a loop body that places without the taken-cell check
with_location_unguarded(v, st, loc) == place(v, st, loc)

\* the loop body from the taken-cell check on
with_location(v, st, loc) ==
    IF is_taken(st.grid, loc) THEN reject_taken(st, loc) ELSE place(v, st, loc)

\* the loop body of main when the move comes from the console; r is what
\* get_user_input returned or raised
human_iteration(v, st, r) ==
    CASE r.kind = "UserExit" -> user_exit(st)
      [] r.kind = "InvalidInput" -> input_error(st, "InvalidInput")
      [] r.kind = "InputOutOfBounds" -> input_error(st, "InputOutOfBounds")
      [] r.kind = "ValueError" -> uncaught(st, "ValueError")
      [] r.kind = "int" -> with_location(v, st, r.num)

\* what get_user_input can return or raise at a prompt, over all the lines
ConsoleResults == {get_user_input(s) : s \in Lines}

\* a computer that takes its first sample whatever the cell holds
resample_never(b, loc) == FALSE

\* oop_npc.py get_location: the condition of the resampling loop
resample(b, loc) == is_taken(b, loc)

\* oop_npc.py: one random.randint(1, 9) of get_location; the loop body of main
\* follows when the sample leaves the resampling loop
computer_sample(v, st, loc) ==
    IF resample(st.grid, loc)
    THEN [st EXCEPT !.pc = "sampling", !.event = "resample", !.location = loc]
    ELSE with_location(v, [st EXCEPT !.pc = "prompt"], loc)

\* whether the current player's move source is the console
human_to_move == variant # "oop_npc" \/ current_player # PLAYER_O

SetState(st) ==
    /\ grid' = st.grid
    /\ turn' = st.turn
    /\ cls_current' = st.cls_current
    /\ current_player' = st.current_player
    /\ pc' = st.pc
    /\ event' = st.event
    /\ location' = st.location
    /\ placed' = st.placed

----------------------------------------------------------------------------
(* The game: one run of main in a fresh process *)

Init ==
    /\ variant \in Variants
    /\ grid = EmptyGrid
    /\ turn = 0
    /\ cls_current = TRUE
    /\ current_player = Players_current(TRUE)
    /\ pc = "prompt"
    /\ event = "start"
    /\ location = 0
    /\ placed = <<>>
    /\ line = <<>>
    /\ games = 1

\* a loop iteration of main with a line read from the console
HumanTurn ==
    /\ pc = "prompt"
    /\ human_to_move
    /\ \E r \in ConsoleResults : SetState(human_iteration(variant, State, r))
    /\ UNCHANGED <<variant, line, games>>

\* oop_npc.py: the computer draws a position
ComputerSample ==
    /\ pc \in {"prompt", "sampling"}
    /\ ~human_to_move
    /\ \E loc \in Positions : SetState(computer_sample(variant, State, loc))
    /\ UNCHANGED <<variant, line, games>>

Next == HumanTurn \/ ComputerSample

Spec == Init /\ [][Next]_vars

----------------------------------------------------------------------------
(* The game against the computer, with a fair random sampler *)

InitNpc == Init /\ variant = "oop_npc"

\* oop_npc.py get_location: the sampler returns a position whose cell is Empty,
\* the resampling loop ends and main places the computer's mark there
SampleOpenCell ==
    /\ pc \in {"prompt", "sampling"}
    /\ ~human_to_move
    /\ \E loc \in Positions :
         /\ ~resample(grid, loc)
         /\ \E s0 \in {[State EXCEPT !.pc = "prompt",
                                     !.grid = add(grid, loc, current_player),
                                     !.location = loc,
                                     !.placed = Append(placed, current_player)]} :
              \E st \in {after_add(variant, s0)} : SetState(st)
    /\ UNCHANGED <<variant, line, games>>

\* a fair sampler draws every position in the end, hence, while the board has
\* an Empty cell, a position whose cell is Empty
FairSampler == WF_vars(SampleOpenCell)

SpecNpcFair == InitNpc /\ [][Next]_vars /\ FairSampler

----------------------------------------------------------------------------
(* The game with move sources that supply a usable move in the end *)

\* get_user_input returns the position of an Empty cell or raises UserExit, and
\* main's loop body runs on it
HumanSupplies ==
    /\ pc = "prompt"
    /\ human_to_move
    /\ \/ \E st \in {user_exit(State)} : SetState(st)
       \/ \E loc \in Positions :
            /\ ~is_taken(grid, loc)
            /\ \E s0 \in {[State EXCEPT !.grid = add(grid, loc, current_player),
                                        !.location = loc,
                                        !.placed = Append(placed, current_player)]} :
                 \E st \in {after_add(variant, s0)} : SetState(st)
    /\ UNCHANGED <<variant, line, games>>

\* after finitely many rejected inputs the console supplies quit or the position
\* of an Empty cell
FairConsole == WF_vars(HumanSupplies)

SpecFair == Init /\ [][Next]_vars /\ FairConsole /\ FairSampler

----------------------------------------------------------------------------
(* Games in sequence: main called again in the process after it returned *)

\* the start of main: functional.py sets its local player to True and goes on
\* with the module-level board and turn; oop.py and oop_npc.py read
\* Players.current() and construct a Board
new_game(v, st) ==
    IF v = "functional"
    THEN [st EXCEPT !.current_player = PLAYER_X, !.pc = "prompt", !.event = "start",
                    !.location = 0, !.placed = <<>>]
    ELSE [st EXCEPT !.current_player = Players_current(st.cls_current),
                    !.grid = EmptyGrid, !.turn = 0, !.pc = "prompt",
                    !.event = "start", !.location = 0, !.placed = <<>>]

\* main returned (win, tie or quit) and is called once more
NewGame ==
    /\ pc \in {"won", "tie", "quit"}
    /\ games < MaxGames
    /\ SetState(new_game(variant, State))
    /\ games' = games + 1
    /\ UNCHANGED <<variant, line>>

NextReplay == Next \/ NewGame

SpecReplay == Init /\ [][NextReplay]_vars

----------------------------------------------------------------------------
(* The game with an input stream that can be interrupted or can end *)

\* except KeyboardInterrupt of the __main__ guard: print("\nExiting...")
keyboard_interrupt(st) ==
    [st EXCEPT !.pc = "interrupted", !.event = "KeyboardInterrupt", !.location = 0]

\* Ctrl-C while main runs: KeyboardInterrupt passes through main's handlers to
\* the __main__ guard
Interrupt ==
    /\ pc \in {"prompt", "sampling"}
    /\ SetState(keyboard_interrupt(State))
    /\ UNCHANGED <<variant, line, games>>

\* input() at the end of the stream raises EOFError, which neither main nor the
\* __main__ guard catches
EndOfStream ==
    /\ pc = "prompt"
    /\ human_to_move
    /\ SetState(uncaught(State, "EOFError"))
    /\ UNCHANGED <<variant, line, games>>

NextStream == Next \/ Interrupt \/ EndOfStream

SpecStream == Init /\ [][NextStream]_vars

----------------------------------------------------------------------------
(* The win check on its own: called on any board, for either player *)

InitWin ==
    /\ variant \in Variants
    /\ grid \in AllGrids
    /\ turn = 0
    /\ cls_current = TRUE
    /\ current_player = Players_current(TRUE)
    /\ pc = "check"
    /\ event = "start"
    /\ location = 0
    /\ placed = <<>>
    /\ line = <<>>
    /\ games = 1

\* chicken_dinner(player) / board.is_winner(player) on the board as it stands
CheckWinner ==
    /\ pc = "check"
    /\ \E player \in Marks :
          /\ current_player' = player
          /\ event' = IF is_winner(variant, grid, player) THEN "win" ELSE "nowin"
    /\ pc' = "checked"
    /\ UNCHANGED <<variant, grid, turn, cls_current, location, placed, line, games>>

SpecWin == InitWin /\ [][CheckWinner]_vars

----------------------------------------------------------------------------
(* The first prompt of a game, answered with any input line *)

InitInput ==
    /\ variant \in Variants
    /\ grid = EmptyGrid
    /\ turn = 0
    /\ cls_current = TRUE
    /\ current_player = Players_current(TRUE)
    /\ pc = "prompt"
    /\ event = "start"
    /\ location = 0
    /\ placed = <<>>
    /\ line \in Lines
    /\ games = 1

\* the first loop iteration of main, the console delivering `line`
FirstPrompt ==
    /\ pc = "prompt"
    /\ event = "start"
    /\ SetState(human_iteration(variant, State, get_user_input(line)))
    /\ UNCHANGED <<variant, line, games>>

SpecInput == InitInput /\ [][FirstPrompt]_vars

----------------------------------------------------------------------------
(* The board on its own: add and is_taken called on any board *)

\* the three files define the board operations alike; oop.py's Board is taken
InitBoard ==
    /\ variant = "oop"
    /\ grid \in AllGrids
    /\ turn = 0
    /\ cls_current = TRUE
    /\ current_player = Players_current(TRUE)
    /\ pc = "board"
    /\ event = "start"
    /\ location = 0
    /\ placed = <<>>
    /\ line = <<>>
    /\ games = 1

\* board.add(position, player) on the board as it stands
AddCall ==
    /\ pc = "board"
    /\ \E position \in Positions, player \in Marks :
          /\ grid' = add(grid, position, player)
          /\ location' = position
          /\ current_player' = player
          /\ placed' = Append(placed, player)
    /\ pc' = "added"
    /\ event' = "added"
    /\ UNCHANGED <<variant, turn, cls_current, line, games>>

\* board.is_taken(position): on the board as it stands, any position; right after
\* an add, the position just written
TakenCall ==
    /\ pc \in {"board", "added"}
    /\ \E position \in Positions :
          /\ pc = "added" => position = location
          /\ location' = position
          /\ event' = IF is_taken(grid, position) THEN "taken" ELSE "free"
    /\ pc' = "queried"
    /\ UNCHANGED <<variant, grid, turn, cls_current, current_player, placed, line, games>>

NextBoard == AddCall \/ TakenCall

SpecBoard == InitBoard /\ [][NextBoard]_vars

----------------------------------------------------------------------------
(* Notions the properties are stated with *)

\* the glyph at linear position p, row-major
CellAt(b, p) == b[(p - 1) \div 3][(p - 1) % 3]

\* the 8 lines of the board: 3 rows, 3 columns, 2 diagonals
WinLines ==
    {{1, 2, 3}, {4, 5, 6}, {7, 8, 9},
     {1, 4, 7}, {2, 5, 8}, {3, 6, 9},
     {1, 5, 9}, {3, 5, 7}}

Diagonals == {{1, 5, 9}, {3, 5, 7}}

FullLine(b, player, l) == \A p \in l : CellAt(b, p) = player

AnyLine(b, player) == \E l \in WinLines : FullLine(b, player, l)

NonEmpty(b) == Cardinality({p \in Positions : CellAt(b, p) # EMPTY})

IsDigitString(s) == Len(s) > 0 /\ \A i \in 1..Len(s) : s[i] \in Digits

\* the number of cells of the board that hold the player's mark
CountMark(b, player) == Cardinality({p \in Positions : CellAt(b, p) = player})

----------------------------------------------------------------------------
(* Properties *)

\* C1: on every board and for each player, each variant's win check reports a
\* win exactly when one of the 8 lines is entirely that player's; the diagonal
\* check with its centre-cell pre-filter equals the plain test of the two full
\* diagonals; the three variants agree.
WinCheckIsLineCheck ==
    pc = "checked" =>
        /\ (event = "win") <=> AnyLine(grid, current_player)
        /\ \A v \in Variants :
              is_winner(v, grid, current_player) = AnyLine(grid, current_player)
        /\ check_diags(grid, current_player)
              = (\E l \in Diagonals : FullLine(grid, current_player, l))
        /\ npc_check_diags(grid, current_player)
              = (\E l \in Diagonals : FullLine(grid, current_player, l))

\* C1 witness: a win reported on a board whose only full line is a diagonal
WinByDiagonalOnly ==
    /\ pc = "checked"
    /\ event = "win"
    /\ \E l \in Diagonals : FullLine(grid, current_player, l)
    /\ \A l \in WinLines \ Diagonals : ~FullLine(grid, current_player, l)

FlipRule ==
    /\ (Len(placed') = Len(placed) + 1 /\ pc' = "prompt") =>
          /\ current_player' = not_player(current_player)
          /\ variant # "functional" =>
                (cls_current' = ~cls_current /\ current_player' = Players_current(cls_current'))
    /\ placed' = placed => UNCHANGED <<current_player, cls_current>>

\* the marks placed so far are X, O, X, O, ...
Alternates ==
    \A i \in 1..Len(placed) : placed[i] = IF i % 2 = 1 THEN PLAYER_X ELSE PLAYER_O

\* C3: the current player is flipped once by every accepted placement that does
\* not end the game and never by a rejected move, an input error or quit; the
\* marks placed alternate X, O, X, O, ... starting with X.
RotationOncePerAcceptedMove == [][FlipRule]_vars /\ []Alternates

\* C3 witness: four marks placed in turn, then an input rejected
FourPlacedThenRejected ==
    /\ placed = <<PLAYER_X, PLAYER_O, PLAYER_X, PLAYER_O>>
    /\ event \in {"taken", "InvalidInput", "InputOutOfBounds"}
    /\ current_player = PLAYER_X

\* C4: a move that targets a taken cell is rejected and changes nothing: board,
\* move counter and current player stay as they are and the same player is
\* prompted again; nothing else is rejected as taken.
TakenCellRejected ==
    [][ (\/ event' = "taken"
         \/ (event' \in {"placed", "win", "tie"} /\ is_taken(grid, location')))
        => /\ event' = "taken"
           /\ location' \in Positions
           /\ is_taken(grid, location')
           /\ UNCHANGED <<grid, turn, current_player, cls_current, placed>>
           /\ pc' = "prompt" ]_vars

\* C4 witness: a move on a taken cell was rejected in mid-game
RejectedOnTakenCell ==
    /\ event = "taken"
    /\ is_taken(grid, location)
    /\ turn = 3
    /\ pc = "prompt"

\* C5: an InvalidInput or InputOutOfBounds is caught by the loop: the game goes
\* on, board, move counter and current player are unchanged and the same player
\* is prompted again.
InputErrorRecoverable ==
    [][ event' \in {"InvalidInput", "InputOutOfBounds"}
        => /\ pc = "prompt"
           /\ pc' = "prompt"
           /\ UNCHANGED <<grid, turn, current_player, cls_current, placed>> ]_vars

\* C5 witness: an out-of-bounds input in mid-game, the game still at a prompt
OutOfBoundsMidGame ==
    /\ event = "InputOutOfBounds"
    /\ turn = 3
    /\ pc = "prompt"
    /\ current_player = PLAYER_O

\* C6: a ninth placement that completes a line for the mover ends the game as a
\* win for the mover, never as a tie; a tie is declared only after a placement
\* that did not win.
WinBeforeTie ==
    /\ (Len(placed) = 9 /\ AnyLine(grid, placed[9])) => (pc = "won" /\ event = "win")
    /\ pc = "tie" =>
          (Len(placed) > 0 /\ event = "tie" /\ ~AnyLine(grid, placed[Len(placed)]))

\* C6 witness: the ninth mark completed a line and the game was won
NinthMarkWins ==
    /\ Len(placed) = 9
    /\ NonEmpty(grid) = 9
    /\ AnyLine(grid, placed[9])
    /\ pc = "won"

\* C7: a tie is declared exactly when the board is full with no line: at a tie
\* all nine cells are non-Empty, the counter is 9 and neither player has a
\* line; a full board without a line for either player is a tie.
TieIffFullWithoutLine ==
    /\ pc = "tie" =>
          /\ NonEmpty(grid) = 9
          /\ turn = 9
          /\ \A player \in Marks : ~AnyLine(grid, player)
    /\ (NonEmpty(grid) = 9 /\ \A player \in Marks : ~AnyLine(grid, player)) => pc = "tie"

\* C7 witness: the tie of the board X O X / X O O / O X X
TieOnFullBoard ==
    /\ pc = "tie"
    /\ grid = [r \in 0..2 |->
                 CASE r = 0 -> [c \in 0..2 |-> IF c = 1 THEN PLAYER_O ELSE PLAYER_X]
                   [] r = 1 -> [c \in 0..2 |-> IF c = 0 THEN PLAYER_X ELSE PLAYER_O]
                   [] r = 2 -> [c \in 0..2 |-> IF c = 0 THEN PLAYER_O ELSE PLAYER_X]]

\* C8 (as stated): "5" is accepted as 5; "q" and "Q" trigger the exit; "0",
\* "10" and "-1" are out-of-bounds; "abc" and the empty line are invalid input.
ListedInputsClassified ==
    event # "start" =>
        /\ line = <<"5">> => (event = "placed" /\ location = 5)
        /\ line \in {<<"q">>, <<"Q">>} => event = "quit"
        /\ line \in {<<"0">>, <<"1", "0">>, <<"-", "1">>} => event = "InputOutOfBounds"
        /\ line \in {<<"a", "b", "c">>, <<>>} => event = "InvalidInput"

\* C9 (as stated): every input line gives exactly one of four outcomes: exit for
\* "q"/"Q", the integer for a digit string denoting 1..9, out-of-bounds for a
\* digit string denoting another integer, invalid input for any other line; no
\* other exception leaves the move source.
FourOutcomes ==
    event # "start" =>
        CASE line \in {<<"q">>, <<"Q">>} -> event = "quit"
          [] IsDigitString(line) /\ decimal_value(line, Len(line)) \in Positions ->
                 event = "placed" /\ location = decimal_value(line, Len(line))
          [] IsDigitString(line) /\ decimal_value(line, Len(line)) \notin Positions ->
                 event = "InputOutOfBounds"
          [] OTHER -> event = "InvalidInput"

\* C10: the computer's move source hands main only a position in 1..9 whose
\* cell is Empty: the move is never rejected as taken and the mark goes onto an
\* Empty cell, every other cell unchanged.
ComputerMoveOpen ==
    [][ (variant = "oop_npc" /\ current_player = PLAYER_O /\ event' # "resample")
        => /\ location' \in Positions
           /\ ~is_taken(grid, location')
           /\ CellAt(grid, location') = EMPTY
           /\ event' \in {"placed", "win", "tie"}
           /\ grid' = add(grid, location', PLAYER_O)
           /\ \A p \in Positions \ {location'} : CellAt(grid', p) = CellAt(grid, p) ]_vars

\* C10 witness: the computer placed its fourth mark, on the eighth cell filled
ComputerPlacedFourth ==
    /\ variant = "oop_npc"
    /\ Len(placed) = 8
    /\ placed[8] = PLAYER_O
    /\ event = "placed"
    /\ NonEmpty(grid) = 8

\* C12 (as stated): every game run by main, a second game in the same process
\* included, starts with an all-Empty board, a move counter of 0 and X to move.
EveryGameStartsFresh ==
    event = "start" =>
        /\ grid = EmptyGrid
        /\ turn = 0
        /\ current_player = PLAYER_X

\* the computer's move source has been invoked and has not returned yet
ComputerToMove == pc \in {"prompt", "sampling"} /\ ~human_to_move

\* C11: against the computer, the randomized move source is never invoked on a
\* full board, and with a fair sampler its retry loop always ends with a position.
ComputerSourceTerminates ==
    /\ [](ComputerToMove => NonEmpty(grid) < 9)
    /\ ComputerToMove ~> ~ComputerToMove

\* C11 witness: the retry loop is running on a board with two Empty cells left
RetryingOnLastCells ==
    /\ variant = "oop_npc"
    /\ pc = "sampling"
    /\ event = "resample"
    /\ NonEmpty(grid) = 7

\* C13: in the game loop the place operation is invoked only on a cell that is
\* Empty at that moment, and writes the mover's mark there; hence a cell that is
\* non-Empty keeps its mark for the rest of the game.
PlaceOnlyOnEmpty ==
    [][ /\ placed' # placed =>
             /\ location' \in Positions
             /\ CellAt(grid, location') = EMPTY
             /\ grid' = add(grid, location', current_player)
        /\ placed' = placed => grid' = grid
        /\ \A p \in Positions : CellAt(grid, p) # EMPTY => CellAt(grid', p) = CellAt(grid, p) ]_vars

\* C13 witness: a mark has been placed on a board that already held marks
PlacedAmongMarks ==
    /\ event = "placed"
    /\ Len(placed) = 5
    /\ NonEmpty(grid) = 5
    /\ CellAt(grid, location) = placed[5]

\* C14: for every position p in 1..9 the coordinate conversion returns
\* ((p-1) div 3, (p-1) mod 3), both in 0..2, and the conversion is a bijection from
\* the 9 positions onto the 9 cells.
CoordsRowMajor ==
    /\ location \in Positions =>
          /\ get_coords(location) = <<(location - 1) \div 3, (location - 1) % 3>>
          /\ get_coords(location)[1] \in 0..2
          /\ get_coords(location)[2] \in 0..2
    /\ \A p \in Positions : \A q \in Positions :
          p # q => get_coords(p) # get_coords(q)
    /\ \A r \in 0..2 : \A c \in 0..2 : \E p \in Positions : get_coords(p) = <<r, c>>
    /\ event = "added" => grid[(location - 1) \div 3][(location - 1) % 3] = current_player

\* C14 witness: add has converted position 6, beyond the first row
AddedAtSix ==
    /\ pc = "added"
    /\ location = 6
    /\ current_player = PLAYER_O
    /\ grid[1][2] = PLAYER_O

\* C15: is_taken is false for every position of a fresh board; after add(p, player)
\* is_taken(p) is true, the cell of p holds player and every other cell is as
\* before; is_taken does not change the board.
AddThenTaken ==
    [][ /\ (event' \in {"taken", "free"} /\ grid = EmptyGrid) => event' = "free"
        /\ event' = "added" =>
             /\ CellAt(grid', location') = current_player'
             /\ is_taken(grid', location')
             /\ \A q \in Positions \ {location'} : CellAt(grid', q) = CellAt(grid, q)
        /\ (pc = "added" /\ pc' = "queried") => event' = "taken"
        /\ event' \in {"taken", "free"} =>
             /\ grid' = grid
             /\ event' = "taken" <=> CellAt(grid, location') # EMPTY ]_vars

\* C15 witness: is_taken answered true for the position add had just written, the
\* other marks of the board in place
TakenAfterAdd ==
    /\ pc = "queried"
    /\ Len(placed) = 1
    /\ event = "taken"
    /\ CellAt(grid, location) = placed[1]
    /\ NonEmpty(grid) = 4

\* C16: Players.switch flips the active identity and returns the new current
\* identity, the one Players.current() gives right afterwards; called twice from
\* any rotation state it returns to the original current identity.
SwitchFlipsAndReturnsCurrent ==
    [][ (variant # "functional" /\ event' = "placed") =>
            /\ cls_current' = ~cls_current
            /\ Players_current(cls_current') # Players_current(cls_current)
            /\ current_player' = Players_current(cls_current')
            /\ Players_switch(Players_switch(cls_current)) = cls_current
            /\ Players_current(Players_switch(cls_current')) = Players_current(cls_current)
            /\ Len(placed') >= 2 => current_player' = placed'[Len(placed') - 1] ]_vars

\* C16 witness: switch has been called twice and X is current again
SwitchedTwice ==
    /\ variant = "oop"
    /\ event = "placed"
    /\ Len(placed) = 2
    /\ cls_current = TRUE
    /\ current_player = PLAYER_X

\* C17: on the quit sentinel the game loop ends at once with the farewell; board,
\* move counter and rotation state are as they were before the prompt, no win or
\* tie is reported, and nothing happens afterwards.
QuitEndsWithoutMutation ==
    [][ /\ event' = "quit" =>
             /\ pc = "prompt"
             /\ human_to_move
             /\ pc' = "quit"
             /\ UNCHANGED <<grid, turn, cls_current, current_player, placed>>
        /\ pc = "prompt" /\ pc' = "quit" => event' = "quit"
        /\ pc # "quit" ]_vars

\* C17 witness: the user quit in mid-game, three marks on the board
QuitMidGame ==
    /\ pc = "quit"
    /\ event = "quit"
    /\ turn = 3
    /\ NonEmpty(grid) = 3
    /\ current_player = PLAYER_O

\* C18 (as stated): an interruption of the input stream, end-of-stream or
\* interrupt, at any prompt ends the whole program at once with a short message:
\* no reprompt, no state change, no win or tie message.
StreamInterruptionEndsQuietly ==
    event \in {"KeyboardInterrupt", "EOFError"} => pc = "interrupted"

\* C19: the game never continues past a winning position: whenever a move is
\* requested from a player neither X nor O has three in a row, and in every state,
\* final ones included, at most one player has three in a row, namely the player
\* who placed the last mark.
NoPlayPastWin ==
    /\ pc \in {"prompt", "sampling"} =>
          (~AnyLine(grid, PLAYER_X) /\ ~AnyLine(grid, PLAYER_O))
    /\ ~(AnyLine(grid, PLAYER_X) /\ AnyLine(grid, PLAYER_O))
    /\ \A player \in Marks :
          AnyLine(grid, player) =>
              /\ Len(placed) > 0
              /\ placed[Len(placed)] = player
              /\ pc = "won"

\* C19 witness: O completed a column with the last mark placed and the game ended
ColumnWonByO ==
    /\ pc = "won"
    /\ \E l \in {{1, 4, 7}, {2, 5, 8}, {3, 6, 9}} : FullLine(grid, PLAYER_O, l)
    /\ placed[Len(placed)] = PLAYER_O
    /\ ~AnyLine(grid, PLAYER_X)

\* C20 (as stated): every game ends within 9 accepted placements: the move counter
\* never exceeds 9, no move is requested once the board is full, and with move
\* sources that in the end supply quit or the position of an Empty cell the game
\* loop ends with a win, a tie or a user exit.
GameEndsWithinNine ==
    /\ [](turn <= 9 /\ Len(placed) <= 9)
    /\ [](pc \in {"prompt", "sampling"} => NonEmpty(grid) < 9)
    /\ <>(pc \in {"won", "tie", "quit"})

\* C21: in a game started in a fresh process, at every prompt the number of X marks
\* minus the number of O marks is 0 when X is to move and 1 when O is to move; in
\* every state the difference is 0 or 1; and main's local current player equals
\* what Players.current() gives.
MarkBalance ==
    LET diff == CountMark(grid, PLAYER_X) - CountMark(grid, PLAYER_O)
    IN  /\ pc \in {"prompt", "sampling"} =>
              diff = (IF current_player = PLAYER_X THEN 0 ELSE 1)
        /\ diff \in {0, 1}
        /\ variant # "functional" => current_player = Players_current(cls_current)

\* C21 witness: O is prompted with three X marks and two O marks on the board,
\* the rotation state switched five times
OToMoveOneBehind ==
    /\ variant = "oop"
    /\ pc = "prompt"
    /\ current_player = PLAYER_O
    /\ cls_current = FALSE
    /\ CountMark(grid, PLAYER_X) = 3
    /\ CountMark(grid, PLAYER_O) = 2

====
